---- MODULE Spec2Model ----
(***************************************************************************)
(* A model of scripts/build_site.py (line renderer, block assembler,       *)
(* frontmatter parser, site builder) and of the main run of                *)
(* scripts/generate_blog.py.                                               *)
(*                                                                         *)
(* Text is a sequence of one-character strings.  Rendered HTML is a        *)
(* sequence of atoms: an atom is an input character passed through         *)
(* unchanged (a one-character string), an entity produced by html.escape   *)
(* ("&lt;", "&amp;", ...) or a piece of markup the renderer itself emits   *)
(* ("<li>", "</strong>", ...).  The regular expressions of the renderer    *)
(* only look for the characters * [ ] ( ) digits . and white space, none   *)
(* of which occurs inside an entity or inside emitted markup, so matching  *)
(* on atoms agrees with matching on characters.                            *)
(***************************************************************************)
EXTENDS Integers, Sequences, FiniteSets, TLC

VARIABLES
  rline, rn, rhtml, rpc,                      \* line renderer run
  lines, idx, output, in_ul, in_ol, apc,      \* block assembler run
  raw, fn, fmeta, fbody, fpc,                 \* frontmatter parser run
  sources, site, paths, posts, wr, written, bpc,  \* site builder
  genv, gpc, provider, requests, outfiles, printed  \* blog generator main run

vars == <<rline, rn, rhtml, rpc, lines, idx, output, in_ul, in_ol, apc,
          raw, fn, fmeta, fbody, fpc, sources, site, paths, posts, wr, written, bpc,
          genv, gpc, provider, requests, outfiles, printed>>

rvars == <<rline, rn, rhtml, rpc>>
avars == <<lines, idx, output, in_ul, in_ol, apc>>
fvars == <<raw, fn, fmeta, fbody, fpc>>
bvars == <<sources, site, paths, posts, wr, written, bpc>>
gvars == <<genv, gpc, provider, requests, outfiles, printed>>

-----------------------------------------------------------------------------
(* Bounds of the model. *)

\* Most body pieces appended after the optional line prefix (renderer runs).
MaxPieces == 5
\* Most lines of a document handed to the block assembler.
MaxLines == 4
\* Most characters of the metadata line of a frontmatter block.
MaxMetaLen == 4

-----------------------------------------------------------------------------
(* Text helpers: the str methods the scripts use. *)

\* str.isspace, for the white space the model's texts can hold.
IsWs(c) == c \in {" ", "\t", "\n"}

IsDigit(c) == c \in {"0", "1", "2", "3", "4", "5", "6", "7", "8", "9"}

\* str.startswith
StartsWith(s, p) == Len(s) >= Len(p) /\ SubSeq(s, 1, Len(p)) = p

\* str.endswith
EndsWith(s, p) == Len(s) >= Len(p) /\ SubSeq(s, Len(s) - Len(p) + 1, Len(s)) = p

\* `p in s`
Contains(s, p) == \E i \in 1..(Len(s) - Len(p) + 1) : SubSeq(s, i, i + Len(p) - 1) = p

\* str.index(c), 1-based; the callers establish that c occurs.
IndexOf(s, c) == CHOOSE i \in 1..Len(s) : s[i] = c /\ \A j \in 1..(i - 1) : s[j] # c

RECURSIVE RStrip(_)
\* str.rstrip()
RStrip(s) ==
  IF s # <<>> /\ IsWs(s[Len(s)]) THEN RStrip(SubSeq(s, 1, Len(s) - 1)) ELSE s

RECURSIVE LStrip(_)
\* str.lstrip()
LStrip(s) == IF s # <<>> /\ IsWs(s[1]) THEN LStrip(Tail(s)) ELSE s

\* str.strip()
Strip(s) == LStrip(RStrip(s))

\* html.escape(c, quote=False) of one character: the quotes are left alone.
EscapeChar_NoQuote(c) ==
  CASE c = "&" -> "&amp;"
    [] c = "<" -> "&lt;"
    [] c = ">" -> "&gt;"
    [] OTHER -> c

\* html.escape(c) of one character, quote=True.
EscapeChar(c) ==
  CASE c = "&" -> "&amp;"
    [] c = "<" -> "&lt;"
    [] c = ">" -> "&gt;"
    [] c = "\"" -> "&quot;"
    [] c = "'" -> "&#x27;"
    [] OTHER -> c

\* html.escape(s)
HtmlEscape(s) == [i \in 1..Len(s) |-> EscapeChar(s[i])]

-----------------------------------------------------------------------------
(* Line Renderer: md_line_to_html. *)

\* Least e >= from with s[e] = s[e+1] = "*", or 0.
BoldClose(s, from) ==
  LET C == {e \in from..(Len(s) - 1) : s[e] = "*" /\ s[e + 1] = "*"}
  IN IF C = {} THEN 0 ELSE CHOOSE e \in C : \A x \in C : e <= x

RECURSIVE BoldFrom(_, _)
\* re.sub(r"\*\*(.+?)\*\*", r"<strong>\1</strong>", s), scanning from pos.
BoldFrom(s, pos) ==
  IF pos > Len(s) THEN <<>>
  ELSE LET e == IF pos + 1 <= Len(s) /\ s[pos] = "*" /\ s[pos + 1] = "*"
                 THEN BoldClose(s, pos + 3) ELSE 0
       IN IF e # 0
          THEN <<"<strong>">> \o SubSeq(s, pos + 2, e - 1) \o <<"</strong>">>
               \o BoldFrom(s, e + 2)
          ELSE <<s[pos]>> \o BoldFrom(s, pos + 1)

BoldSub(s) == BoldFrom(s, 1)

\* Least m >= from with s[m] = "]", s[m+1] = "(" and a ")" at m+3 or later, or 0.
LinkMid(s, from) ==
  LET C == {m \in from..(Len(s) - 1) :
              /\ s[m] = "]" /\ s[m + 1] = "("
              /\ \E n \in (m + 3)..Len(s) : s[n] = ")"}
  IN IF C = {} THEN 0 ELSE CHOOSE m \in C : \A x \in C : m <= x

\* Least n >= from with s[n] = ")"; the caller establishes there is one.
LinkEnd(s, from) ==
  CHOOSE n \in from..Len(s) : s[n] = ")" /\ \A x \in from..(n - 1) : s[x] # ")"

RECURSIVE LinkFrom(_, _)
\* re.sub(r"\[(.+?)\]\((.+?)\)", r'<a class=... href="\2">\1</a>', s) from pos.
LinkFrom(s, pos) ==
  IF pos > Len(s) THEN <<>>
  ELSE LET m == IF s[pos] = "[" THEN LinkMid(s, pos + 2) ELSE 0
       IN IF m # 0
          THEN LET n == LinkEnd(s, m + 3)
               IN <<"<a class=\"text-cyan-300 underline\" href=\"">>
                  \o SubSeq(s, m + 2, n - 1) \o <<"\">">>
                  \o SubSeq(s, pos + 1, m - 1) \o <<"</a>">>
                  \o LinkFrom(s, n + 1)
          ELSE <<s[pos]>> \o LinkFrom(s, pos + 1)

LinkSub(s) == LinkFrom(s, 1)

RECURSIVE CountWhile(_, _, _)
\* Number of leading elements of s, from position i, that are digits (d = TRUE)
\* or white space (d = FALSE).
CountWhile(s, i, d) ==
  IF i <= Len(s) /\ (IF d THEN IsDigit(s[i]) ELSE IsWs(s[i]))
  THEN 1 + CountWhile(s, i + 1, d) ELSE 0

\* Length of the match of r"^\d+\.\s+" at the start of s, 0 when there is none.
OlPrefixLen(s) ==
  LET d == CountWhile(s, 1, TRUE)
      w == CountWhile(s, d + 2, FALSE)
  IN IF d >= 1 /\ d + 1 <= Len(s) /\ s[d + 1] = "." /\ w >= 1 THEN d + 1 + w ELSE 0

\* line.startswith("- ")
IsUlLine(s) == StartsWith(s, <<"-", " ">>)

\* bool(re.match(r"^\d+\.\s+", line))
IsOlLine(s) == OlPrefixLen(s) > 0

\* The image test of md_line_to_html.
IsImageLine(s) ==
  StartsWith(s, <<"!", "[">>) /\ Contains(s, <<"]", "(">>) /\ EndsWith(s, <<")">>)

\* The figure element of an image line.
Figure(s) ==
  LET alt == SubSeq(s, 3, IndexOf(s, "]") - 1)
      src == SubSeq(s, IndexOf(s, "(") + 1, Len(s) - 1)
  IN <<"<figure><img src=\"">> \o HtmlEscape(src) \o <<"\" alt=\"">>
     \o HtmlEscape(alt) \o <<"\" /><figcaption>">> \o HtmlEscape(alt)
     \o <<"</figcaption></figure>">>

\* The escaped line with the two span substitutions applied.
Inline(s) == LinkSub(BoldSub(HtmlEscape(s)))

\* html.escape(line[n:]) between a heading's tags.
Heading(s, n, open, close) ==
  <<open>> \o HtmlEscape(SubSeq(s, n + 1, Len(s))) \o <<close>>

md_line_to_html(l) ==
  LET line == RStrip(l)
      escaped == Inline(line)
  IN IF line = <<>> THEN <<>>
     ELSE IF IsImageLine(line) THEN Figure(line)
     ELSE IF StartsWith(line, <<"#", "#", "#", " ">>) THEN Heading(line, 4, "<h3>", "</h3>")
     ELSE IF StartsWith(line, <<"#", "#", " ">>) THEN Heading(line, 3, "<h2>", "</h2>")
     ELSE IF StartsWith(line, <<"#", " ">>) THEN Heading(line, 2, "<h1>", "</h1>")
     ELSE IF IsUlLine(line)
          THEN <<"<li>">> \o SubSeq(escaped, 3, Len(escaped)) \o <<"</li>">>
     ELSE IF IsOlLine(line)
          THEN <<"<li>">> \o SubSeq(escaped, OlPrefixLen(escaped) + 1, Len(escaped))
               \o <<"</li>">>
     ELSE <<"<p>">> \o escaped \o <<"</p>">>

-----------------------------------------------------------------------------
(* Runs of the Line Renderer on one line.  The line is an optional prefix  *)
(* that selects a branch, followed by at most MaxPieces pieces of inline   *)
(* syntax and of HTML-special characters.                                  *)

LinePrefixes ==
  { <<>>, <<"!", "[">>, <<"#", " ">>, <<"#", "#", " ">>, <<"#", "#", "#", " ">>,
    <<"-", " ">>, <<"1", ".", " ">> }

LinePieces ==
  { <<"[">>, <<"]", "(">>, <<")">>, <<"*", "*">>, <<"<">>, <<"&">>, <<"\"">> }

\* The values the variables of the other components keep while one runs.
RenderIdle == rline = <<>> /\ rn = 0 /\ rhtml = <<>> /\ rpc = "off"
AssembleIdle ==
  /\ lines = <<>> /\ idx = 0 /\ output = <<>>
  /\ in_ul = FALSE /\ in_ol = FALSE /\ apc = "off"
FrontIdle == raw = <<>> /\ fn = 0 /\ fmeta = {} /\ fbody = <<>> /\ fpc = "off"
BuildIdle ==
  /\ sources = {} /\ site = [index |-> [exists |-> FALSE, cards |-> <<>>], blog |-> <<>>]
  /\ paths = <<>> /\ posts = <<>> /\ wr = 0 /\ written = {} /\ bpc = "off"
GenIdle ==
  /\ genv = <<>> /\ gpc = "off" /\ provider = "" /\ requests = 0
  /\ outfiles = 0 /\ printed = "none"

InitRender ==
  /\ rline = <<>> /\ rn = 0 /\ rhtml = <<>> /\ rpc = "prefix"
  /\ AssembleIdle /\ FrontIdle /\ BuildIdle /\ GenIdle

\* The caller's line starts with prefix p.
ChoosePrefix ==
  /\ rpc = "prefix"
  /\ \E p \in LinePrefixes : rline' = p
  /\ rpc' = "body"
  /\ UNCHANGED <<rn, rhtml, avars, fvars, bvars, gvars>>

\* The caller's line goes on with piece p.
AppendPiece ==
  /\ rpc = "body" /\ rn < MaxPieces
  /\ \E p \in LinePieces : rline' = rline \o p
  /\ rn' = rn + 1
  /\ UNCHANGED <<rhtml, rpc, avars, fvars, bvars, gvars>>

\* md_line_to_html(rline) is called and returns.
Render ==
  /\ rpc = "body"
  /\ rhtml' = md_line_to_html(rline)
  /\ rpc' = "done"
  /\ UNCHANGED <<rline, rn, avars, fvars, bvars, gvars>>

NextRender == ChoosePrefix \/ AppendPiece \/ Render

SpecRender == InitRender /\ [][NextRender]_vars

\* The HTML-special characters the claim names.
HtmlSpecial == {"<", ">", "&", "\""}

\* C9: in every branch of the Line Renderer the text of the line reaches the
\* output escaped: no atom of the output is an HTML-special character passed
\* through from the input, so the only raw < > & and double quotes of the
\* output are those of entities and of markup the renderer emitted; and as
\* many entities are emitted between the tags as special characters were kept.
C9_EscapedEverywhere ==
  rpc = "done" =>
    /\ \A i \in 1..Len(rhtml) : rhtml[i] \notin HtmlSpecial
    /\ \A i \in 1..Len(rline) :
         rline[i] \in HtmlSpecial /\ ~IsImageLine(RStrip(rline))
           => \E j \in 1..Len(rhtml) : rhtml[j] = EscapeChar(rline[i])

\* A list item whose bold span holds a "<" has been rendered.
C9_Witness ==
  /\ rpc = "done"
  /\ IsUlLine(rline)
  /\ \E i \in 1..(Len(rhtml) - 2) :
       rhtml[i] = "<strong>" /\ rhtml[i + 1] = "&lt;" /\ rhtml[i + 2] = "</strong>"

-----------------------------------------------------------------------------
(* Block Assembler: markdown_to_html.  `lines` is raw.splitlines(); the     *)
(* output is the list `output` of the code, one fragment per element (the   *)
(* final "\n".join keeps the elements and their order).  The state of the   *)
(* loop is the record [out, ul, ol] of output, in_ul and in_ol.             *)

UlOpen == <<"<ul>">>
UlClose == <<"</ul>">>
OlOpen == <<"<ol>">>
OlClose == <<"</ol>">>

\* Lines 58-63 without lines 59-61: the <ul> is opened, an open <ol> is not
\* closed first.
OpenUl_NoClose(st, is_ul) ==
  IF is_ul /\ ~st.ul
  THEN [out |-> Append(st.out, UlOpen), ul |-> TRUE, ol |-> st.ol]
  ELSE st

\* if is_ul and not in_ul: (close an open <ol>,) open a <ul>
OpenUl(st, is_ul) ==
  IF is_ul /\ ~st.ul
  THEN LET c == IF st.ol THEN Append(st.out, OlClose) ELSE st.out
       IN [out |-> Append(c, UlOpen), ul |-> TRUE, ol |-> FALSE]
  ELSE st

\* if is_ol and not in_ol: (close an open <ul>,) open an <ol>
OpenOl(st, is_ol) ==
  IF is_ol /\ ~st.ol
  THEN LET c == IF st.ul THEN Append(st.out, UlClose) ELSE st.out
       IN [out |-> Append(c, OlOpen), ul |-> FALSE, ol |-> TRUE]
  ELSE st

\* if not is_ul and in_ul: close the <ul>
CloseUl(st, is_ul) ==
  IF ~is_ul /\ st.ul
  THEN [out |-> Append(st.out, UlClose), ul |-> FALSE, ol |-> st.ol]
  ELSE st

\* if not is_ol and in_ol: close the <ol>
CloseOl(st, is_ol) ==
  IF ~is_ol /\ st.ol
  THEN [out |-> Append(st.out, OlClose), ul |-> st.ul, ol |-> FALSE]
  ELSE st

\* line_html = md_line_to_html(line); if line_html: output.append(line_html)
AppendFragment(st, line) ==
  LET line_html == md_line_to_html(line)
  IN IF line_html # <<>> THEN [st EXCEPT !.out = Append(st.out, line_html)] ELSE st

\* One iteration of `for line in lines`.
LoopBody(st, line) ==
  LET is_ul == IsUlLine(line)
      is_ol == IsOlLine(line)
  IN AppendFragment(
       CloseOl(CloseUl(OpenOl(OpenUl(st, is_ul), is_ol), is_ul), is_ol), line)

\* After the loop: close the list still open.
Finish(st) ==
  LET a == IF st.ul THEN [st EXCEPT !.out = Append(st.out, UlClose)] ELSE st
  IN IF a.ol THEN [a EXCEPT !.out = Append(a.out, OlClose)] ELSE a

\* The lines a document of the assembler runs is made of.
DocLines ==
  { <<"-", " ", "a">>, <<"-", " ">>, <<"1", ".", " ", "a">>, <<"1", ".", " ">>,
    <<"a">>, <<>>, <<"#", " ", "a">> }

InitAssemble ==
  /\ lines = <<>> /\ idx = 0 /\ output = <<>>
  /\ in_ul = FALSE /\ in_ol = FALSE /\ apc = "input"
  /\ RenderIdle /\ FrontIdle /\ BuildIdle /\ GenIdle

\* The document handed to markdown_to_html has one more line.
AppendLine ==
  /\ apc = "input" /\ Len(lines) < MaxLines
  /\ \E l \in DocLines : lines' = Append(lines, l)
  /\ UNCHANGED <<idx, output, in_ul, in_ol, apc, rvars, fvars, bvars, gvars>>

\* markdown_to_html is called: lines 49-52.
AssembleStart ==
  /\ apc = "input"
  /\ apc' = "loop"
  /\ idx' = 0 /\ output' = <<>> /\ in_ul' = FALSE /\ in_ol' = FALSE
  /\ UNCHANGED <<lines, rvars, fvars, bvars, gvars>>

\* One iteration of the loop of lines 54-79.
AssembleLine ==
  /\ apc = "loop" /\ idx < Len(lines)
  /\ LET st == LoopBody([out |-> output, ul |-> in_ul, ol |-> in_ol], lines[idx + 1])
     IN output' = st.out /\ in_ul' = st.ul /\ in_ol' = st.ol
  /\ idx' = idx + 1
  /\ UNCHANGED <<lines, apc, rvars, fvars, bvars, gvars>>

\* Lines 81-86: the loop is over, the open list is closed, the result returned.
AssembleEnd ==
  /\ apc = "loop" /\ idx = Len(lines)
  /\ LET st == Finish([out |-> output, ul |-> in_ul, ol |-> in_ol])
     IN output' = st.out /\ in_ul' = st.ul /\ in_ol' = st.ol
  /\ apc' = "done"
  /\ UNCHANGED <<lines, idx, rvars, fvars, bvars, gvars>>

NextAssemble == AppendLine \/ AssembleStart \/ AssembleLine \/ AssembleEnd

SpecAssemble == InitAssemble /\ [][NextAssemble]_vars

RECURSIVE ListScan(_, _, _)
\* Reads the list tags of out from position i on, `open` being the list open
\* before it ("none", "ul" or "ol"): the list open at the end, or "bad" when
\* a list is opened inside an open list or a closing tag does not close the
\* list that is open.
ListScan(out, i, open) ==
  IF i > Len(out) THEN open
  ELSE IF out[i] \in {UlOpen, OlOpen}
       THEN IF open # "none" THEN "bad"
            ELSE ListScan(out, i + 1, IF out[i] = UlOpen THEN "ul" ELSE "ol")
  ELSE IF out[i] \in {UlClose, OlClose}
       THEN IF open = (IF out[i] = UlClose THEN "ul" ELSE "ol")
            THEN ListScan(out, i + 1, "none") ELSE "bad"
  ELSE ListScan(out, i + 1, open)

\* C1: the list containers of the assembler's output are balanced and flat.
\* While the loop runs the tags emitted so far never nest and leave open
\* exactly the list the two flags say; no list is open in the final output.
C1_ListsBalancedFlat ==
  /\ apc = "loop" =>
       /\ ~(in_ul /\ in_ol)
       /\ ListScan(output, 1, "none")
            = (IF in_ul THEN "ul" ELSE IF in_ol THEN "ol" ELSE "none")
  /\ apc = "done" => ListScan(output, 1, "none") = "none"

\* An ordered list directly follows an unordered one in a finished output.
C1_Witness ==
  /\ apc = "done"
  /\ \E i \in 1..(Len(output) - 1) : output[i] = UlClose /\ output[i + 1] = OlOpen
  /\ \E i \in 1..(Len(output) - 1) : output[i] = OlClose /\ output[i + 1] = UlOpen

\* A list-item fragment.
IsListItem(f) == f # <<>> /\ f[1] = "<li>" /\ f[Len(f)] = "</li>"

\* Line k starts a run of unordered-list lines.
StartsUlRun(ls, k) == IsUlLine(ls[k]) /\ (k = 1 \/ ~IsUlLine(ls[k - 1]))

\* The runs a..b of consecutive unordered-list lines that a non-list line follows.
UlRuns(ls) ==
  { r \in (1..Len(ls)) \X (1..Len(ls)) :
      /\ r[1] <= r[2] /\ r[2] < Len(ls)
      /\ StartsUlRun(ls, r[1])
      /\ \A k \in r[1]..r[2] : IsUlLine(ls[k])
      /\ ~IsUlLine(ls[r[2] + 1]) /\ ~IsOlLine(ls[r[2] + 1]) }

\* The position in out of the n-th <ul>, 0 when there are fewer.
NthUlOpen(out, n) ==
  LET C == {i \in 1..Len(out) :
              out[i] = UlOpen
              /\ Cardinality({j \in 1..i : out[j] = UlOpen}) = n}
  IN IF C = {} THEN 0 ELSE CHOOSE i \in C : TRUE

\* C2 (as claimed): a run of unordered-list lines followed by a non-list line
\* gets one <ul> ... </ul> container that holds exactly the list-item
\* fragments of the lines of the run, one per line, in input order.
C2_UlRunWrapsItems ==
  apc = "done" =>
    \A r \in UlRuns(lines) :
      LET n == Cardinality({k \in 1..r[1] : StartsUlRun(lines, k)})
          i == NthUlOpen(output, n)
          m == r[2] - r[1] + 1
      IN /\ i # 0
         /\ i + m + 1 <= Len(output)
         /\ output[i + m + 1] = UlClose
         /\ \A k \in 1..m :
              /\ IsListItem(output[i + k])
              /\ output[i + k] = md_line_to_html(lines[r[1] + k - 1])

-----------------------------------------------------------------------------
(* Frontmatter Parser: parse_frontmatter.  The metadata dict is the set of *)
(* its <<key, value>> pairs.                                               *)

Delim == <<"-", "-", "-">>

\* str.find(p, from): least position >= from where p occurs in s, or 0.
FindSub(s, p, from) ==
  LET C == {i \in from..(Len(s) - Len(p) + 1) : SubSeq(s, i, i + Len(p) - 1) = p}
  IN IF C = {} THEN 0 ELSE CHOOSE i \in C : \A x \in C : i <= x

RECURSIVE SplitLines(_)
\* str.splitlines() of a text whose only line break is "\n".
SplitLines(s) ==
  IF s = <<>> THEN <<>>
  ELSE LET i == FindSub(s, <<"\n">>, 1)
       IN IF i = 0 THEN <<s>>
          ELSE <<SubSeq(s, 1, i - 1)>> \o SplitLines(SubSeq(s, i + 1, Len(s)))

RECURSIVE StripQuotesLeft(_)
StripQuotesLeft(s) == IF s # <<>> /\ s[1] = "\"" THEN StripQuotesLeft(Tail(s)) ELSE s

RECURSIVE StripQuotesRight(_)
StripQuotesRight(s) ==
  IF s # <<>> /\ s[Len(s)] = "\"" THEN StripQuotesRight(SubSeq(s, 1, Len(s) - 1)) ELSE s

\* str.strip('"')
StripQuotes(s) == StripQuotesLeft(StripQuotesRight(s))

\* key, value = line.split(":", 1), for a line that holds a colon.
KeyPart(line) == SubSeq(line, 1, IndexOf(line, ":") - 1)
ValuePart(line) == SubSeq(line, IndexOf(line, ":") + 1, Len(line))

\* meta[key] = value
MetaPut(meta, k, v) == {e \in meta : e[1] # k} \cup {<<k, v>>}

RECURSIVE MetaOfLines(_, _)
\* The loop of lines 98-101 over the lines ls, starting from dict meta.
MetaOfLines(ls, meta) ==
  IF ls = <<>> THEN meta
  ELSE LET line == Head(ls)
       IN MetaOfLines(Tail(ls),
            IF Contains(line, <<":">>)
            THEN MetaPut(meta, Strip(KeyPart(line)), StripQuotes(Strip(ValuePart(line))))
            ELSE meta)

\* raw.split("---", 2) has three parts: raw holds the delimiter twice.
\* The position of the second one, or 0.
SecondDelim(r) ==
  LET a == FindSub(r, Delim, 1)
  IN IF a = 0 THEN 0 ELSE FindSub(r, Delim, a + 3)

\* parts[1] of raw.split("---", 2), for a raw text that starts with the
\* delimiter and holds it twice.
MetaRaw(r) == SubSeq(r, 4, SecondDelim(r) - 1)

\* Whether parse_frontmatter finds a frontmatter block in r.
HasFrontmatter(r) == StartsWith(r, Delim) /\ SecondDelim(r) # 0

parse_frontmatter(r) ==
  IF ~StartsWith(r, Delim) THEN [meta |-> {}, content |-> r]
  ELSE IF SecondDelim(r) = 0 THEN [meta |-> {}, content |-> r]
  ELSE [meta |-> MetaOfLines(SplitLines(MetaRaw(r)), {}),
        content |-> Strip(SubSeq(r, SecondDelim(r) + 3, Len(r)))]

\* What a document starts with, the characters of its metadata, how it ends.
DocHeads == { <<"-", "-", "-", "\n">>, <<>> }
MetaChars == {"k", ":", " ", "\"", "v", "\n"}
DocTails == { <<"\n", "-", "-", "-", "\n", "b">>, <<"\n", "b">>,
              <<"\n", "-", "-", "-", "\n", " ", "b", "\n">> }

InitFront ==
  /\ raw = <<>> /\ fn = 0 /\ fmeta = {} /\ fbody = <<>> /\ fpc = "head"
  /\ RenderIdle /\ AssembleIdle /\ BuildIdle /\ GenIdle

\* The document starts with h.
ChooseHead ==
  /\ fpc = "head"
  /\ \E h \in DocHeads : raw' = h
  /\ fpc' = "meta"
  /\ UNCHANGED <<fn, fmeta, fbody, rvars, avars, bvars, gvars>>

\* The document goes on with c.
AppendMetaChar ==
  /\ fpc = "meta" /\ fn < MaxMetaLen
  /\ \E c \in MetaChars : raw' = Append(raw, c)
  /\ fn' = fn + 1
  /\ UNCHANGED <<fmeta, fbody, fpc, rvars, avars, bvars, gvars>>

\* The document ends with t.
ChooseTail ==
  /\ fpc = "meta"
  /\ \E t \in DocTails : raw' = raw \o t
  /\ fpc' = "ready"
  /\ UNCHANGED <<fn, fmeta, fbody, rvars, avars, bvars, gvars>>

\* parse_frontmatter(raw) is called and returns.
ParseFrontmatter ==
  /\ fpc = "ready"
  /\ LET r == parse_frontmatter(raw)
     IN fmeta' = r.meta /\ fbody' = r.content
  /\ fpc' = "done"
  /\ UNCHANGED <<raw, fn, rvars, avars, bvars, gvars>>

NextFront == ChooseHead \/ AppendMetaChar \/ ChooseTail \/ ParseFrontmatter

SpecFront == InitFront /\ [][NextFront]_vars

\* The value with one matching pair of surrounding double quotes removed.
UnquoteOnePair(s) ==
  IF Len(s) >= 2 /\ s[1] = "\"" /\ s[Len(s)] = "\""
  THEN SubSeq(s, 2, Len(s) - 1) ELSE s

\* C7 (as claimed): each metadata line with a colon gives the key trimmed
\* and the value trimmed and then stripped of at most one matching pair of
\* surrounding double quotes (the last line of a key is the one that
\* counts); lines without a colon give no key.
C7_OnePairUnquoted ==
  fpc = "done" /\ HasFrontmatter(raw) =>
    LET ls == SplitLines(MetaRaw(raw))
        hasKey(i) == Contains(ls[i], <<":">>)
        key(i) == Strip(KeyPart(ls[i]))
    IN fmeta = { <<key(i), UnquoteOnePair(Strip(ValuePart(ls[i])))>> :
                   i \in {j \in 1..Len(ls) :
                            /\ hasKey(j)
                            /\ \A m \in (j + 1)..Len(ls) : hasKey(m) => key(m) # key(j)} }

-----------------------------------------------------------------------------
(* Site Builder: build().  `sources` is the set of stems of the *.md files *)
(* of POSTS_DIR.  `site` is the output tree: the home page (whether it     *)
(* exists and the hrefs of its cards) and the files of site/blog, a        *)
(* function from file path to the page written there.  A page is recorded  *)
(* by the slug of the post it was rendered from.  `written` is the set of  *)
(* paths write_text was called on in the current run.                     *)

\* Code points of the characters of the model's file names.
Ord(c) ==
  CASE c = " " -> 32 [] c = "!" -> 33 [] c = "-" -> 45 [] c = "." -> 46
    [] c = "_" -> 95 [] c = "a" -> 97 [] c = "b" -> 98 [] c = "d" -> 100
    [] c = "m" -> 109

RECURSIVE LexLess(_, _)
\* s < t for two str: by code point, a proper prefix first.
LexLess(s, t) ==
  IF t = <<>> THEN FALSE
  ELSE IF s = <<>> THEN TRUE
  ELSE IF s[1] # t[1] THEN Ord(s[1]) < Ord(t[1])
  ELSE LexLess(Tail(s), Tail(t))

\* The name of the source file of a post: its stem and the suffix .md.
FileName(stem) == stem \o <<".", "m", "d">>

\* Path.__lt__ for two paths of POSTS_DIR: the order of their names.
PathLess(a, b) == LexLess(FileName(a), FileName(b))

RECURSIVE SortedAscending(_)
\* sorted(POSTS_DIR.glob("*.md")), without reverse=True.
SortedAscending(S) ==
  IF S = {} THEN <<>>
  ELSE LET m == CHOOSE x \in S : \A y \in S : ~PathLess(y, x)
       IN <<m>> \o SortedAscending(S \ {m})

RECURSIVE SortedPaths(_)
\* sorted(POSTS_DIR.glob("*.md"), reverse=True), as the list of the stems.
SortedPaths(S) ==
  IF S = {} THEN <<>>
  ELSE LET m == CHOOSE x \in S : \A y \in S : ~PathLess(x, y)
       IN <<m>> \o SortedPaths(S \ {m})

\* The characters re.sub(r"[^a-zA-Z0-9_-]", "", ...) keeps.
IsSlugChar(c) == c \in {"a", "b", "-", "_"} \/ IsDigit(c)

\* safe_slug = re.sub(r"[^a-zA-Z0-9_-]", "", post["slug"])
SafeSlug(slug) == SelectSeq(slug, IsSlugChar)

HtmlExt == <<".", "h", "t", "m", "l">>

\* The record of a post: "slug": path.stem.
Post(stem) == [slug |-> stem]

\* The href of the card of post p on the home page.
CardHref(p) == <<"/", "blog", "/">> \o p.slug \o HtmlExt

\* The path, under SITE_DIR, of the page of post p.
PagePath(p) == <<"blog", "/">> \o SafeSlug(p.slug) \o HtmlExt

\* The path, under SITE_DIR, of the home page.
IndexPath == <<"index.html">>

\* The cards of the home page, one per post, in the order of posts.
Cards(ps) == [i \in 1..Len(ps) |-> CardHref(ps[i])]

\* path.write_text on a file of site/blog: created or overwritten.
WriteFile(blog, path, page) ==
  [x \in (DOMAIN blog) \cup {path} |-> IF x = path THEN page ELSE blog[x]]

\* The stems the post documents of the model can have.
StemPool == { <<"a">>, <<"a", "-", "b">>, <<"a", "b">>, <<"a", " ", "b">> }

InitBuild ==
  /\ sources = {}
  /\ site = [index |-> [exists |-> FALSE, cards |-> <<>>], blog |-> <<>>]
  /\ paths = <<>> /\ posts = <<>> /\ wr = 0 /\ written = {} /\ bpc = "idle"
  /\ RenderIdle /\ AssembleIdle /\ FrontIdle /\ GenIdle

\* No build is running.
NoBuild == bpc \in {"idle", "done", "aborted"}

\* Between two builds a post document is added to POSTS_DIR.
AddSource ==
  /\ NoBuild
  /\ \E s \in StemPool \ sources : sources' = sources \cup {s}
  /\ UNCHANGED <<site, paths, posts, wr, written, bpc, rvars, avars, fvars, gvars>>

\* Between two builds a post document is removed from POSTS_DIR.
RemoveSource ==
  /\ NoBuild
  /\ \E s \in sources : sources' = sources \ {s}
  /\ UNCHANGED <<site, paths, posts, wr, written, bpc, rvars, avars, fvars, gvars>>

\* build() is called: the directories are made (no file is touched), the
\* profile is rendered and the post documents are listed and sorted.
BuildStart ==
  /\ NoBuild
  /\ paths' = SortedPaths(sources)
  /\ posts' = <<>> /\ wr' = 0 /\ written' = {}
  /\ bpc' = "read"
  /\ UNCHANGED <<sources, site, rvars, avars, fvars, gvars>>

\* One iteration of the loop of lines 136-146: the document is read and its
\* post appended.
ReadPost ==
  /\ bpc = "read" /\ Len(posts) < Len(paths)
  /\ posts' = Append(posts, Post(paths[Len(posts) + 1]))
  /\ UNCHANGED <<sources, site, paths, wr, written, bpc, rvars, avars, fvars, gvars>>

\* path.read_text raises (the document cannot be read or decoded): the
\* exception leaves build().
ReadFails ==
  /\ bpc = "read" /\ Len(posts) < Len(paths)
  /\ bpc' = "aborted"
  /\ UNCHANGED <<sources, site, paths, posts, wr, written, rvars, avars, fvars, gvars>>

\* Lines 148-180: the loop is over, the home page is rendered and written.
WriteIndex ==
  /\ bpc = "read" /\ Len(posts) = Len(paths)
  /\ site' = [site EXCEPT !.index = [exists |-> TRUE, cards |-> Cards(posts)]]
  /\ written' = written \cup {IndexPath}
  /\ bpc' = "pages"
  /\ UNCHANGED <<sources, paths, posts, wr, rvars, avars, fvars, gvars>>

\* The page of the next post is written while the documents are still read.
WritePost_WhileReading ==
  /\ bpc \in {"read", "pages"} /\ wr < Len(posts)
  /\ LET post == posts[wr + 1]
     IN /\ site' = [site EXCEPT !.blog = WriteFile(site.blog, PagePath(post), post)]
        /\ written' = written \cup {PagePath(post)}
  /\ wr' = wr + 1
  /\ UNCHANGED <<sources, paths, posts, bpc, rvars, avars, fvars, gvars>>

\* One iteration of the loop of lines 182-195: the page of a post is written.
WritePost ==
  /\ bpc = "pages" /\ wr < Len(posts)
  /\ LET post == posts[wr + 1]
     IN /\ site' = [site EXCEPT !.blog = WriteFile(site.blog, PagePath(post), post)]
        /\ written' = written \cup {PagePath(post)}
  /\ wr' = wr + 1
  /\ UNCHANGED <<sources, paths, posts, bpc, rvars, avars, fvars, gvars>>

\* build() returns.
BuildEnd ==
  /\ bpc = "pages" /\ wr = Len(posts)
  /\ bpc' = "done"
  /\ UNCHANGED <<sources, site, paths, posts, wr, written, rvars, avars, fvars, gvars>>

NextBuild ==
  \/ AddSource \/ RemoveSource \/ BuildStart \/ ReadPost \/ ReadFails
  \/ WriteIndex \/ WritePost \/ BuildEnd

SpecBuild == InitBuild /\ [][NextBuild]_vars

\* C3: a build that a failed read aborts has written no page: every write
\* of a run comes after the last post document of the run was read.
C3_NoWriteBeforeAllRead ==
  /\ bpc = "aborted" => written = {}
  /\ written # {} => bpc \in {"pages", "done"} /\ Len(posts) = Len(paths)

\* A read fails after a first document of the run was read, the output of
\* an earlier build being in place.
C3_Witness ==
  /\ bpc = "aborted" /\ Len(posts) >= 1
  /\ site.index.exists /\ DOMAIN site.blog # {}

\* C4 (as claimed): the card of every post links to the file its page is
\* written to.
C4_CardLinksToPage ==
  bpc = "done" =>
    /\ Len(site.index.cards) = Len(posts)
    /\ \A i \in 1..Len(posts) : site.index.cards[i] = <<"/">> \o PagePath(posts[i])

\* C5 (as claimed): a finished build over N posts has written N post pages.
C5_OnePagePerPost ==
  bpc = "done" => Cardinality(written \ {IndexPath}) = Len(posts)

\* C6 (as claimed): posts and cards are ordered by slug, descending.
C6_SlugDescending ==
  bpc \in {"pages", "done"} =>
    \A i, j \in 1..Len(posts) : i < j => LexLess(posts[j].slug, posts[i].slug)

\* C6 (amended): posts and cards are ordered by the name of the source file,
\* stem and .md suffix, descending.
C6_FileNameDescending ==
  bpc \in {"pages", "done"} =>
    /\ \A i, j \in 1..Len(posts) :
         i < j => LexLess(posts[j].slug \o <<".", "m", "d">>,
                          posts[i].slug \o <<".", "m", "d">>)
    /\ site.index.cards = [i \in 1..Len(posts) |-> CardHref(posts[i])]

\* A finished build has put the post "a" before the post "a-b".
C6_Witness ==
  /\ bpc = "done"
  /\ \E i \in 1..(Len(posts) - 1) :
       posts[i].slug = <<"a">> /\ posts[i + 1].slug = <<"a", "-", "b">>

\* The frame of a build: a step changes no file but the home page and the
\* pages of the posts of the running build, and removes none.
BuildFrame ==
  [][ /\ DOMAIN site.blog \subseteq DOMAIN site'.blog
      /\ \A f \in DOMAIN site.blog :
           f \notin { PagePath(Post(s)) : s \in sources } => site'.blog[f] = site.blog[f]
    ]_vars

\* C10 (as claimed): while the source document of a post is absent, the page
\* written for that post stays in the output unchanged.
C10_RemovedPostPageStays ==
  [][ \A s \in StemPool :
        LET f == PagePath(Post(s))
        IN ( /\ s \notin sources /\ s \notin sources'
             /\ f \in DOMAIN site.blog /\ site.blog[f] = Post(s) )
           => ( f \in DOMAIN site'.blog /\ site'.blog[f] = site.blog[f] )
    ]_vars

-----------------------------------------------------------------------------
(* Blog generator: main() of generate_blog.py.  `genv` is what the run     *)
(* finds: whether --draft is given, whether the profile and draft files    *)
(* exist, --dry-run, AI_PROVIDER and the providers whose API key is set.   *)
(* `requests` counts the calls of http_post_json, `outfiles` the post      *)
(* files written, `printed` is what the run has printed.                   *)

ProviderOrder == <<"openai", "openrouter", "nvidia", "gemini", "claude">>
ProviderNames == { ProviderOrder[i] : i \in 1..Len(ProviderOrder) }

\* A missing file read as an empty text.
read_text_Lenient(exists) == "text"

\* read_text(path): raises FileNotFoundError when the path does not exist.
read_text(exists) == IF ~exists THEN "raise" ELSE "text"

\* provider_from_env(): the provider's name, or "raise".
provider_from_env(forced, keys) ==
  IF forced # ""
  THEN IF forced \notin ProviderNames THEN "raise"
       ELSE IF forced \notin keys THEN "raise"
       ELSE forced
  ELSE IF keys = {} THEN "raise"
  ELSE ProviderOrder[CHOOSE i \in 1..Len(ProviderOrder) :
                       /\ ProviderOrder[i] \in keys
                       /\ \A j \in 1..(i - 1) : ProviderOrder[j] \notin keys]

InitGen ==
  /\ genv \in [ draftArg : BOOLEAN, profile : BOOLEAN, draft : BOOLEAN,
                dry_run : BOOLEAN,
                forced : {"", "other"} \cup ProviderNames,
                keys : SUBSET ProviderNames ]
  /\ gpc = "start" /\ provider = "" /\ requests = 0 /\ outfiles = 0 /\ printed = "none"
  /\ RenderIdle /\ AssembleIdle /\ FrontIdle /\ BuildIdle

\* Lines 204-209: parse_args exits with an error when --draft is not given.
ParseArgs ==
  /\ gpc = "start"
  /\ gpc' = IF genv.draftArg THEN "args" ELSE "error"
  /\ UNCHANGED <<genv, provider, requests, outfiles, printed, rvars, avars, fvars, bvars>>

\* Line 211: profile_md = read_text(Path(args.profile))
ReadProfile ==
  /\ gpc = "args"
  /\ gpc' = IF read_text(genv.profile) = "raise" THEN "error" ELSE "profile"
  /\ UNCHANGED <<genv, provider, requests, outfiles, printed, rvars, avars, fvars, bvars>>

\* Lines 212-213: draft_md = read_text(draft_path)
ReadDraft ==
  /\ gpc = "profile"
  /\ gpc' = IF read_text(genv.draft) = "raise" THEN "error" ELSE "draft"
  /\ UNCHANGED <<genv, provider, requests, outfiles, printed, rvars, avars, fvars, bvars>>

\* Lines 215-217: title, prompt, provider = provider_from_env()
ResolveProvider ==
  /\ gpc = "draft"
  /\ LET pr == provider_from_env(genv.forced, genv.keys)
     IN IF pr = "raise"
        THEN gpc' = "error" /\ provider' = provider
        ELSE gpc' = "provider" /\ provider' = pr
  /\ UNCHANGED <<genv, requests, outfiles, printed, rvars, avars, fvars, bvars>>

\* Lines 219-224: the request is sent to the provider; it answers with a
\* text, or the call raises (the network, a response without content).
SendRequest ==
  /\ gpc = "provider"
  /\ requests' = requests + 1
  /\ \E answer \in {"text", "raise"} :
       gpc' = IF answer = "raise" THEN "error" ELSE "generated"
  /\ UNCHANGED <<genv, provider, outfiles, printed, rvars, avars, fvars, bvars>>

\* Lines 226-233: the post is printed (--dry-run) or written and reported.
Publish ==
  /\ gpc = "generated"
  /\ IF genv.dry_run
     THEN printed' = "post" /\ outfiles' = outfiles
     ELSE printed' = "report" /\ outfiles' = outfiles + 1
  /\ gpc' = "done"
  /\ UNCHANGED <<genv, provider, requests, rvars, avars, fvars, bvars>>

NextGen ==
  ParseArgs \/ ReadProfile \/ ReadDraft \/ ResolveProvider \/ SendRequest \/ Publish

SpecGen == InitGen /\ [][NextGen]_vars

\* C8: a run whose profile file or draft file is missing sends no request,
\* writes no post file and prints nothing; it never gets past the read that
\* finds the file missing, where it ends with the error.
C8_MissingInputFailsFast ==
  (~genv.profile \/ ~genv.draft) /\ gpc # "off" =>
    /\ requests = 0 /\ outfiles = 0 /\ printed = "none" /\ provider = ""
    /\ gpc \in {"start", "args", "profile", "error"}
    /\ gpc = "profile" => genv.profile

\* A run with a profile, a key and no draft file has ended with the error.
C8_Witness ==
  /\ gpc = "error"
  /\ genv.draftArg /\ genv.profile /\ ~genv.draft
  /\ genv.forced = "" /\ genv.keys # {}

====
